---------------------------- MODULE Spec2Model ----------------------------
(***************************************************************************)
(* A model of the wolfenlike ray-casting engine (src/main.rs,              *)
(* src/renderer.rs, src/input.rs).                                         *)
(*                                                                         *)
(* Numbers.  An f32 of the program is modelled as an exact rational        *)
(* [n |-> numerator, d |-> denominator] in lowest terms with d > 0,        *)
(* extended with +inf = [n |-> 1, d |-> 0], -inf = [n |-> -1, d |-> 0] and *)
(* NaN = [n |-> 0, d |-> 0].  The rounding of f32 arithmetic is not        *)
(* modelled, except that an irrational square root is truncated to a       *)
(* multiple of 1/SqrtGrid.  An i32 is an integer; the float-to-integer     *)
(* casts saturate and send NaN to 0 as Rust's `as` does.                   *)
(***************************************************************************)
EXTENDS Integers, Sequences, FiniteSets, TLC

(***************************************************************************)
(* Bounds of the model.                                                    *)
(***************************************************************************)
\* The screen, scaled down from 960 x 540 (main.rs:14-16).  Like the
\* program's, it is wider than high, of even width and height, and larger
\* than the 10 x 10 map in both directions.
WIDTH == 14
HEIGHT == 12
\* Camera positions are drawn from the grid of multiples of 1 / Q of a
\* cell.
Q == 2

I32Max == 2147483647

(***************************************************************************)
(* Rational arithmetic with infinities and NaN.                            *)
(***************************************************************************)
Abs(a) == IF a < 0 THEN -a ELSE a
Sgn(a) == IF a < 0 THEN -1 ELSE IF a > 0 THEN 1 ELSE 0

RECURSIVE GCD(_, _)
GCD(a, b) == IF b = 0 THEN a ELSE GCD(b, a % b)

R(n, d) ==
    IF d = 0 THEN [n |-> Sgn(n), d |-> 0]
    ELSE LET g == GCD(Abs(n), Abs(d))
         IN  [n |-> Sgn(d) * (n \div g), d |-> Abs(d) \div g]

RInt(i) == [n |-> i, d |-> 1]
NaN == [n |-> 0, d |-> 0]
Inf == [n |-> 1, d |-> 0]
IsNaN(a) == a.d = 0 /\ a.n = 0
IsFinite(a) == a.d > 0

RNeg(a) == [n |-> -a.n, d |-> a.d]
RAdd(a, b) ==
    IF a.d = 0 /\ b.d = 0
    THEN (IF a.n = b.n THEN a ELSE NaN)
    ELSE R(a.n * b.d + b.n * a.d, a.d * b.d)
RSub(a, b) == RAdd(a, RNeg(b))
RMul(a, b) == R(a.n * b.n, a.d * b.d)
\* a / b in IEEE arithmetic: x/0 is an infinity, 0/0 and inf/inf are NaN.
RDiv(a, b) ==
    IF IsNaN(a) \/ IsNaN(b) THEN NaN
    ELSE IF b.d = 0 THEN (IF a.d = 0 THEN NaN ELSE RInt(0))
    ELSE IF b.n = 0 THEN [n |-> Sgn(a.n), d |-> 0]
    ELSE IF a.d = 0 THEN [n |-> a.n * Sgn(b.n), d |-> 0]
    ELSE R(a.n * b.d, a.d * b.n)
RAbs(a) == [n |-> Abs(a.n), d |-> a.d]
\* Comparisons with a NaN are false.
RLt(a, b) ==
    /\ ~IsNaN(a)
    /\ ~IsNaN(b)
    /\ IF a.d = 0 /\ b.d = 0 THEN a.n < b.n ELSE a.n * b.d < b.n * a.d
RLe(a, b) == ~IsNaN(a) /\ ~IsNaN(b) /\ (a = b \/ RLt(a, b))
RGe(a, b) == RLe(b, a)
RGt(a, b) == RLt(b, a)

\* `f as i32`: truncation toward zero, saturating, NaN to 0.
AsI32(a) ==
    IF a.d = 0 THEN a.n * I32Max
    ELSE Sgn(a.n) * (Abs(a.n) \div a.d)
\* `f as usize`: as above, and negative values saturate to 0.
AsUsize(a) == IF AsI32(a) < 0 THEN 0 ELSE AsI32(a)
\* f.ceil() and f.floor() of a finite value.
RFloorInt(a) == a.n \div a.d
RCeilInt(a) == -((-a.n) \div a.d)

(***************************************************************************)
(* The tile map.  walls[y][x] of the program is walls[y + 1][x + 1] here   *)
(* (sequences are 1-based).                                                *)
(***************************************************************************)
\* App::new: the wall grid of the program.
DefaultWalls ==
    << <<1, 1, 1, 1, 1, 1, 1, 1, 1, 1>>,
       <<2, 0, 0, 0, 0, 0, 0, 0, 0, 1>>,
       <<1, 0, 0, 0, 0, 0, 0, 0, 0, 1>>,
       <<1, 1, 0, 1, 0, 0, 1, 0, 0, 1>>,
       <<1, 0, 0, 1, 0, 0, 1, 0, 0, 1>>,
       <<1, 0, 0, 1, 1, 1, 1, 0, 1, 1>>,
       <<1, 0, 0, 1, 0, 0, 0, 0, 0, 1>>,
       <<1, 0, 0, 1, 0, 0, 0, 0, 0, 1>>,
       <<1, 0, 0, 0, 0, 0, 0, 0, 0, 1>>,
       <<1, 1, 1, 1, 1, 1, 1, 1, 1, 1>> >>

\* A 10 x 10 map bordered by wall id 1 with an empty interior.
RoomWalls ==
    [y \in 1..10 |-> [x \in 1..10 |->
        IF y = 1 \/ y = 10 \/ x = 1 \/ x = 10 THEN 1 ELSE 0]]
\* The map of App::new with the cell (0, 1) of its west edge left open: a
\* rectangular map that is not enclosed by walls.
GapWalls == [DefaultWalls EXCEPT ![2][1] = 0]

VARIABLES
    pc,            \* position of the program
    walls,         \* App.walls
    player_x, player_y, dir_x, dir_y, plane_x, plane_y,   \* the camera
    entities,      \* App.entities
    \* InputManager
    just_pressed, held, released, request_exit, request_resize,
    mouse_motion,  \* the turn the pointer motion of this frame causes,
                   \* as <<cos, sin>> of turn_speed (main.rs:204-207)
    mouse_buttons, old_mouse_buttons,
    start_time,    \* "None" or "Some": whether an Instant is stored
    delta_time,    \* Option<Duration>: << >> or << seconds >>
    keys_down,     \* history: the keys whose most recent keyboard event was
                   \* a press
    left_clicked,  \* history: whether the left mouse button went from up
                   \* to down in this loop iteration
    move_x, move_y,  \* history: the displacement the last update requested
    prev_x, prev_y,  \* history: the camera position before the last update
    panic,         \* the failure that ended the program, or "none"
    col,           \* the screen column of the ray being cast
    dda,           \* the locals of the ray-cast closure
    steps,         \* history: iterations of the DDA loop so far
    visited,       \* history: the cells the DDA loop stepped into, in order
    z_buffer,      \* the Vec<Ray> of App::draw: slot x is << >> until the
                   \* result of column x is stored, then << ray >>
    frame,         \* Renderer.frame_buffer: pixel offset -> the pass that
                   \* wrote the pixel last
    sprite_log,    \* history: what the sprite pass did with each entity
    call,          \* the arguments of a call of a Renderer primitive
    trace,         \* history: the pipeline stages of this loop iteration
    frames,        \* history: the number of frames presented
    control_flow,  \* "Poll" or "Exit"
    fullscreen,    \* whether the window is full screen
    pending        \* the window and device events of this loop iteration

camVars == <<walls, player_x, player_y, dir_x, dir_y, plane_x, plane_y>>
inputVars == <<just_pressed, held, released, request_exit, request_resize,
               mouse_motion, mouse_buttons, old_mouse_buttons, start_time,
               delta_time, keys_down, left_clicked>>
updVars == <<entities, move_x, move_y, prev_x, prev_y, panic>>
rayVars == <<col, dda, steps, visited>>
drawVars == <<z_buffer, frame, sprite_log, call>>
loopVars == <<trace, frames, control_flow, fullscreen, pending>>
vars == <<pc, camVars, inputVars, updVars, rayVars, drawVars, loopVars>>

MapH(w) == Len(w)
MapW(w) == Len(w[1])
\* The guard of main.rs:326-330: the cell is outside the grid or solid.
OutOfGrid(w, mx, my) ==
    my < 0 \/ my >= MapH(w) \/ mx < 0 \/ mx >= MapW(w)
SolidOrOutside(w, mx, my) ==
    \/ OutOfGrid(w, mx, my)
    \/ w[my + 1][mx + 1] > 0


(***************************************************************************)
(* The per-column ray cast of App::draw (main.rs:290-350).                 *)
(***************************************************************************)
\* main.rs:291  camera_x = 2.0 * x / WIDTH - 1.0
CameraX(x) == R(2 * x - WIDTH, WIDTH)
\* main.rs:292-293  ray_dir = dir + plane * -camera_x
RayDir(d, p, x) == RAdd(d, RMul(p, RNeg(CameraX(x))))
\* main.rs:297-298  delta_dist = (1.0 / ray_dir).abs()
DeltaDist(rd) == RAbs(RDiv(RInt(1), rd))
\* main.rs:303-312  the step and the distance to the first grid line
StepOf(rd) == IF RLt(rd, RInt(0)) THEN -1 ELSE 1
SideDist0(rd, pos, cell) ==
    IF RLt(rd, RInt(0))
    THEN RMul(RSub(pos, RInt(cell)), DeltaDist(rd))
    ELSE RMul(RSub(RInt(cell + 1), pos), DeltaDist(rd))

\* The locals of the closure before the loop (main.rs:291-312).
DdaStart(px, py, dx, dy, plx, ply, x) ==
    LET rdx == RayDir(dx, plx, x)
        rdy == RayDir(dy, ply, x)
    IN  [ ray_dir_x |-> rdx, ray_dir_y |-> rdy,
          map_x |-> AsI32(px), map_y |-> AsI32(py),
          delta_dist_x |-> DeltaDist(rdx), delta_dist_y |-> DeltaDist(rdy),
          step_x |-> StepOf(rdx), step_y |-> StepOf(rdy),
          side_dist_x |-> SideDist0(rdx, px, AsI32(px)),
          side_dist_y |-> SideDist0(rdy, py, AsI32(py)),
          hit |-> 0, side |-> 0 ]

\* main.rs:316  which axis the loop advances along
StepsAlongX(st) == RLt(st.side_dist_x, st.side_dist_y)
\* main.rs:326-333  the test that ends the loop
DdaHit(w, mx, my) == IF SolidOrOutside(w, mx, my) THEN 1 ELSE 0

\* Mutant: the y branch forgets `map_y += step_y`.
DdaStep_NoAdvance(w, st) ==
    LET moved ==
            IF StepsAlongX(st)
            THEN [st EXCEPT !.side_dist_x = RAdd(@, st.delta_dist_x),
                            !.map_x = @ + st.step_x,
                            !.side = 0]
            ELSE [st EXCEPT !.side_dist_y = RAdd(@, st.delta_dist_y),
                            !.side = 1]
    IN  [moved EXCEPT !.hit = DdaHit(w, moved.map_x, moved.map_y)]

\* Mutant: the two branches mark the other side.
DdaStep_SwappedSide(w, st) ==
    LET moved ==
            IF StepsAlongX(st)
            THEN [st EXCEPT !.side_dist_x = RAdd(@, st.delta_dist_x),
                            !.map_x = @ + st.step_x,
                            !.side = 1]
            ELSE [st EXCEPT !.side_dist_y = RAdd(@, st.delta_dist_y),
                            !.map_y = @ + st.step_y,
                            !.side = 0]
    IN  [moved EXCEPT !.hit = DdaHit(w, moved.map_x, moved.map_y)]

\* One iteration of the loop (main.rs:315-334).
DdaStep(w, st) ==
    LET moved ==
            IF StepsAlongX(st)
            THEN [st EXCEPT !.side_dist_x = RAdd(@, st.delta_dist_x),
                            !.map_x = @ + st.step_x,
                            !.side = 0]
            ELSE [st EXCEPT !.side_dist_y = RAdd(@, st.delta_dist_y),
                            !.map_y = @ + st.step_y,
                            !.side = 1]
    IN  [moved EXCEPT !.hit = DdaHit(w, moved.map_x, moved.map_y)]

\* Mutant: the distance keeps the increment of the last iteration.
PerpWallDist_NoCorrection(st) ==
    IF st.side = 0 THEN st.side_dist_x ELSE st.side_dist_y

\* main.rs:336-340  the fish-eye corrected distance
PerpWallDist(st) ==
    IF st.side = 0
    THEN RSub(st.side_dist_x, st.delta_dist_x)
    ELSE RSub(st.side_dist_y, st.delta_dist_y)

\* main.rs:342-349  the Ray the closure returns
RayOf(st) ==
    [ ray_dir_x |-> st.ray_dir_x, ray_dir_y |-> st.ray_dir_y,
      ray_dist |-> PerpWallDist(st),
      map_x |-> st.map_x, map_y |-> st.map_y, side |-> st.side ]

\* The whole loop, for the passes that use the result of a column.
RECURSIVE DdaLoop(_, _)
DdaLoop(w, st) == IF st.hit # 0 THEN st ELSE DdaLoop(w, DdaStep(w, st))
CastRay(w, px, py, dx, dy, plx, ply, x) ==
    RayOf(DdaLoop(w, DdaStart(px, py, dx, dy, plx, ply, x)))

(***************************************************************************)
(* Camera poses.                                                           *)
(***************************************************************************)
\* Unit direction vectors with rational coordinates.
Dirs ==
    { <<RInt(-1), RInt(0)>>, <<RInt(1), RInt(0)>>,
      <<RInt(0), RInt(-1)>>, <<RInt(0), RInt(1)>>,
      <<R(3, 5), R(4, 5)>>, <<R(-4, 5), R(3, 5)>>,
      <<R(-3, 5), R(-4, 5)>>, <<R(4, 5), R(-3, 5)>> }
\* App::new, main.rs:141: plane = (0, WIDTH / HEIGHT / 2) for dir = (-1, 0);
\* App::update rotates both by the same matrix (main.rs:208-213), so that
\* plane = WIDTH / HEIGHT / 2 * (dir_y, -dir_x) throughout.
PlaneOf(d) ==
    << RMul(R(WIDTH, 2 * HEIGHT), d[2]), RMul(R(WIDTH, 2 * HEIGHT), RNeg(d[1])) >>

\* The grid positions whose cell is empty.
GridCoords(w) == { R(i, Q) : i \in 0..(MapW(w) * Q) }
InEmptyCell(w, px, py) ==
    /\ ~OutOfGrid(w, AsI32(px), AsI32(py))
    /\ w[AsI32(py) + 1][AsI32(px) + 1] = 0

(***************************************************************************)
(* The frame buffer and the event loop before the first event.             *)
(***************************************************************************)
Pixels == 0..(WIDTH * HEIGHT - 1)
\* Pixels::new (renderer.rs:21): no pass has written a pixel.
BlankFrame == [i \in Pixels |-> "blank"]
EmptyZBuffer == [x \in 0..(WIDTH - 1) |-> << >>]
DrawIdle ==
    /\ z_buffer = EmptyZBuffer /\ frame = BlankFrame
    /\ sprite_log = << >> /\ call = << >>
LoopIdle ==
    /\ trace = << >> /\ frames = 0 /\ control_flow = "Poll"
    /\ fullscreen = FALSE /\ pending = 0

(***************************************************************************)
(* InputManager (input.rs).                                                *)
(***************************************************************************)
\* No turn: the pointer did not move.
NoTurn == << RInt(1), RInt(0) >>
\* InputManager::new, input.rs:26-30 (Default).
InputManagerNew ==
    /\ just_pressed = << >> /\ held = << >> /\ released = << >>
    /\ request_exit = FALSE /\ request_resize = "None"
    /\ mouse_motion = NoTurn
    /\ mouse_buttons = << FALSE, FALSE >>
    /\ old_mouse_buttons = << FALSE, FALSE >>
    /\ start_time = "None" /\ delta_time = << >>
    /\ keys_down = {} /\ left_clicked = FALSE

Contains(seq, k) == \E i \in 1..Len(seq) : seq[i] = k
\* input.rs:141-143
is_down(h, key) == Contains(h, key)
\* input.rs:136-138
is_just_pressed(jp, key) == Contains(jp, key)
\* input.rs:170-176, for MouseButton::Left
is_mouse_just_pressed_left(mb, omb) == mb[1] /\ ~omb[1]

(***************************************************************************)
(* SpecDDA: one ray, cast step by step from any camera pose.               *)
(***************************************************************************)
InitDDA ==
    /\ walls \in {DefaultWalls, RoomWalls}
    /\ player_x \in GridCoords(walls)
    /\ player_y \in GridCoords(walls)
    /\ InEmptyCell(walls, player_x, player_y)
    /\ \E d \in Dirs :
          /\ dir_x = d[1] /\ dir_y = d[2]
          /\ plane_x = PlaneOf(d)[1] /\ plane_y = PlaneOf(d)[2]
    /\ col \in 0..(WIDTH - 1)
    /\ dda = DdaStart(player_x, player_y, dir_x, dir_y, plane_x, plane_y, col)
    /\ steps = 0
    /\ visited = << >>
    /\ pc = "dda"
    /\ entities = << >>
    /\ InputManagerNew
    /\ move_x = RInt(0) /\ move_y = RInt(0)
    /\ prev_x = player_x /\ prev_y = player_y
    /\ panic = "none"
    /\ DrawIdle /\ LoopIdle

\* One iteration of `while hit == 0`.
DdaIterate ==
    /\ pc = "dda"
    /\ dda.hit = 0
    /\ dda' = DdaStep(walls, dda)
    /\ steps' = steps + 1
    /\ visited' = Append(visited, <<dda'.map_x, dda'.map_y>>)
    /\ UNCHANGED <<pc, camVars, inputVars, updVars, col, drawVars, loopVars>>

\* The loop has ended: the closure returns its Ray.
DdaReturn ==
    /\ pc = "dda"
    /\ dda.hit # 0
    /\ pc' = "ray_done"
    /\ UNCHANGED <<camVars, inputVars, updVars, rayVars, drawVars, loopVars>>

NextDDA == DdaIterate \/ DdaReturn
SpecDDA == InitDDA /\ [][NextDDA]_vars


(***************************************************************************)
(* Claims about the ray cast, checked under SpecDDA.                       *)
(***************************************************************************)
\* Every border cell of the map is solid.
EnclosedRoom(w) ==
    /\ \A x \in 1..MapW(w) : w[1][x] > 0 /\ w[MapH(w)][x] > 0
    /\ \A y \in 1..MapH(w) : w[y][1] > 0 /\ w[y][MapW(w)] > 0
\* The cells of a staircase walk between opposite corners of the map: the
\* cells a walk that changes one coordinate per step can visit.
MapDiagCells(w) == MapW(w) + MapH(w) - 1

\* C1: with the camera in an empty cell of a room enclosed by solid cells,
\* the DDA loop of any column ends, after at most as many iterations as the
\* map's diagonal walk has cells: the iteration count never exceeds that
\* number, and a loop that has not ended yet is strictly below it.
C1_DdaTerminates ==
    (pc \in {"dda", "ray_done"} /\ EnclosedRoom(walls)) =>
        /\ steps <= MapDiagCells(walls)
        /\ (dda.hit = 0 => steps < MapDiagCells(walls))
        /\ (pc = "ray_done" => dda.hit # 0)
\* A ray that crossed the room diagonally and ended.
C1_Witness ==
    pc = "ray_done" /\ EnclosedRoom(walls) /\ dda.hit # 0 /\ steps >= 12

\* The ray is the camera direction itself, along one axis.
FacesWall ==
    /\ dda.ray_dir_x = dir_x /\ dda.ray_dir_y = dir_y
    /\ << dir_x, dir_y >> \in { <<RInt(-1), RInt(0)>>, <<RInt(1), RInt(0)>>,
                                <<RInt(0), RInt(-1)>>, <<RInt(0), RInt(1)>> }
\* The distance from the camera to the face of the hit cell it looks at.
FaceDist ==
    IF dir_x = RInt(-1) THEN RSub(player_x, RInt(dda.map_x + 1))
    ELSE IF dir_x = RInt(1) THEN RSub(RInt(dda.map_x), player_x)
    ELSE IF dir_y = RInt(-1) THEN RSub(player_y, RInt(dda.map_y + 1))
    ELSE RSub(RInt(dda.map_y), player_y)

\* C8: an axis-aligned ray cast straight at a wall returns as perpendicular
\* distance exactly the distance d from the camera to the wall's face, at
\* every camera position (integer or fractional coordinates) in an empty
\* cell; in particular an integer d is returned as that integer.
C8_AxisAlignedDistance ==
    (pc = "ray_done" /\ FacesWall) => RayOf(dda).ray_dist = FaceDist
\* A wall face at integer distance 3, seen from a fractional y coordinate.
C8_Witness ==
    /\ pc = "ray_done" /\ FacesWall
    /\ dir_x = RInt(-1)
    /\ player_x.d = 1 /\ player_y.d # 1
    /\ FaceDist = RInt(3)
    /\ RayOf(dda).ray_dist = RInt(3)

CellEmpty(w, c) == ~SolidOrOutside(w, c[1], c[2])
\* The cell the loop was in before its i-th iteration.
CellBefore(i) ==
    IF i = 1 THEN << AsI32(player_x), AsI32(player_y) >> ELSE visited[i - 1]
\* The scenario of the spec: the centre column of a camera at (1.5, 1.5)
\* facing (-1, 0) in the bordered 10 x 10 room.
CentreScenario ==
    /\ walls = RoomWalls
    /\ player_x = R(3, 2) /\ player_y = R(3, 2)
    /\ dir_x = RInt(-1) /\ dir_y = RInt(0)
    /\ 2 * col = WIDTH

\* C9: when the loop has ended, the reported cell is the last cell stepped
\* into, it is solid or outside the grid, and every cell stepped into before
\* it is empty; the reported side is 0 exactly when the last step changed
\* map_x and 1 exactly when it changed map_y; in the centre scenario the ray
\* reports cell (0, 1) with side 0, the crossing of the grid line x = 1.
C9_FirstSolidCell ==
    pc = "ray_done" =>
        /\ Len(visited) = steps /\ steps >= 1
        /\ visited[steps] = << RayOf(dda).map_x, RayOf(dda).map_y >>
        /\ SolidOrOutside(walls, RayOf(dda).map_x, RayOf(dda).map_y)
        /\ \A i \in 1..(steps - 1) : CellEmpty(walls, visited[i])
        /\ (RayOf(dda).side = 0 <=>
               /\ visited[steps][1] # CellBefore(steps)[1]
               /\ visited[steps][2] = CellBefore(steps)[2])
        /\ (RayOf(dda).side = 1 <=>
               /\ visited[steps][2] # CellBefore(steps)[2]
               /\ visited[steps][1] = CellBefore(steps)[1])
        /\ (CentreScenario =>
               /\ RayOf(dda).map_x = 0 /\ RayOf(dda).map_y = 1
               /\ RayOf(dda).side = 0)
\* The centre scenario, cast to its end.
C9_Witness ==
    /\ pc = "ray_done" /\ CentreScenario
    /\ RayOf(dda).map_x = 0 /\ RayOf(dda).side = 0 /\ steps = 1

(***************************************************************************)
(* App::update (main.rs:197-277).                                          *)
(***************************************************************************)
\* Square roots: exact for the square of a rational, else truncated to a
\* multiple of 1 / SqrtGrid.
SqrtGrid == 8 * Q
ISqrt(k) == CHOOSE r \in 0..k : r * r <= k /\ (r + 1) * (r + 1) > k
RSqrt(a) ==
    IF a.d = 0 THEN a
    ELSE IF a.n < 0 THEN NaN
    ELSE LET sn == ISqrt(a.n)
             sd == ISqrt(a.d)
         IN  IF sn * sn = a.n /\ sd * sd = a.d
             THEN R(sn, sd)
             ELSE R(ISqrt((a.n * SqrtGrid * SqrtGrid) \div a.d), SqrtGrid)

\* main.rs:208-213  the rotation of a vector by the turn <<cos, sin>>
RotX(vx, vy, turn) == RSub(RMul(vx, turn[1]), RMul(vy, turn[2]))
RotY(vx, vy, turn) == RAdd(RMul(vx, turn[2]), RMul(vy, turn[1]))

\* main.rs:217-235  the movement intents of the keys held
MoveRawX(h, dx, dy) ==
    RAdd(RAdd(IF is_down(h, "W") THEN dx ELSE RInt(0),
              IF is_down(h, "S") THEN RNeg(dx) ELSE RInt(0)),
         RAdd(IF is_down(h, "D") THEN RNeg(dy) ELSE RInt(0),
              IF is_down(h, "A") THEN dy ELSE RInt(0)))
MoveRawY(h, dx, dy) ==
    RAdd(RAdd(IF is_down(h, "W") THEN dy ELSE RInt(0),
              IF is_down(h, "S") THEN RNeg(dy) ELSE RInt(0)),
         RAdd(IF is_down(h, "D") THEN dx ELSE RInt(0),
              IF is_down(h, "A") THEN RNeg(dx) ELSE RInt(0)))
\* main.rs:237-242  normalised and scaled by move_speed = 5.0 * delta
MoveScaled(m, mx, my, delta) ==
    RMul(RDiv(m, RSqrt(RAdd(RMul(mx, mx), RMul(my, my)))),
         RMul(RInt(5), delta))

\* walls[fy as usize][fx as usize]: the value of the cell, or -1 when the
\* index is out of range (the program panics).
WallAt(w, fy, fx) ==
    LET iy == AsUsize(fy)
        ix == AsUsize(fx)
    IN  IF iy >= MapH(w) THEN -1
        ELSE IF ix >= Len(w[iy + 1]) THEN -1
        ELSE w[iy + 1][ix + 1]

\* Mutant: the displacement is applied without looking at the wall grid.
MoveX_NoCheck(w, px, py, mx) == RAdd(px, mx)
\* main.rs:244-246
MoveX(w, px, py, mx) ==
    IF WallAt(w, py, RAdd(px, mx)) = 0 THEN RAdd(px, mx) ELSE px
\* main.rs:247-249  (px is self.player_x after lines 244-246)
MoveY(w, px, py, my) ==
    IF WallAt(w, RAdd(py, my), px) = 0 THEN RAdd(py, my) ELSE py

\* Entity::new, main.rs:122-129
Entity(x, y, tex, kind, vx, vy) ==
    [ x_pos |-> x, y_pos |-> y, texture_id |-> tex,
      kind |-> kind, x_vel |-> vx, y_vel |-> vy ]
Stationary(x, y, tex) == Entity(x, y, tex, "Stationary", RInt(0), RInt(0))
\* main.rs:252-257  the projectile the fire trigger adds
Fired(px, py, dx, dy) ==
    Entity(px, py, 5, "Projectile", RMul(dx, RInt(8)), RMul(dy, RInt(8)))
\* App::new, main.rs:181-187
DefaultEntities ==
    << Stationary(R(17, 2), R(3, 2), 3), Stationary(R(17, 2), R(9, 2), 3),
       Stationary(R(17, 2), R(5, 2), 4), Stationary(R(17, 2), R(7, 2), 4),
       Stationary(RInt(8), RInt(3), 4) >>

\* main.rs:263-266
Advance(e, delta) ==
    IF e.kind = "Projectile"
    THEN [e EXCEPT !.x_pos = RAdd(@, RMul(e.x_vel, delta)),
                   !.y_pos = RAdd(@, RMul(e.y_vel, delta))]
    ELSE e
\* main.rs:268-271  the comparison with the screen size
OffLimits(e) ==
    \/ RLt(e.x_pos, RInt(0)) \/ RGe(e.x_pos, RInt(WIDTH))
    \/ RLt(e.y_pos, RInt(0)) \/ RGe(e.y_pos, RInt(HEIGHT))
RemoveAt(seq, i) == SubSeq(seq, 1, i - 1) \o SubSeq(seq, i + 1, Len(seq))

\* Mutant: after a removal the loop passes over the entity below the one
\* removed, as a loop that runs on shifted indices does.
RECURSIVE PruneLoop_SkipAfterRemoval(_, _, _, _)
PruneLoop_SkipAfterRemoval(w, ents, i, delta) ==
    IF i <= 0 THEN [entities |-> ents, panic |-> "none"]
    ELSE LET e == Advance(ents[i], delta)
             kept == [ents EXCEPT ![i] = e]
             cell == WallAt(w, e.y_pos, e.x_pos)
         IN  IF OffLimits(e)
             THEN PruneLoop_SkipAfterRemoval(w, RemoveAt(kept, i), i - 2, delta)
             ELSE IF cell = -1 THEN [entities |-> kept, panic |-> "prune"]
             ELSE IF cell # 0
             THEN PruneLoop_SkipAfterRemoval(w, RemoveAt(kept, i), i - 2, delta)
             ELSE PruneLoop_SkipAfterRemoval(w, kept, i - 1, delta)

\* main.rs:260-276  the loop `for i in (0..len).rev()`, from index i down
\* (1-based here).  Ends with the entities left, or with the panic of the
\* wall lookup of line 272.
RECURSIVE PruneLoop(_, _, _, _)
PruneLoop(w, ents, i, delta) ==
    IF i = 0 THEN [entities |-> ents, panic |-> "none"]
    ELSE LET e == Advance(ents[i], delta)
             kept == [ents EXCEPT ![i] = e]
             cell == WallAt(w, e.y_pos, e.x_pos)
         IN  IF OffLimits(e) THEN PruneLoop(w, RemoveAt(kept, i), i - 1, delta)
             ELSE IF cell = -1 THEN [entities |-> kept, panic |-> "prune"]
             ELSE IF cell # 0
             THEN PruneLoop(w, RemoveAt(kept, i), i - 1, delta)
             ELSE PruneLoop(w, kept, i - 1, delta)

\* The whole of App::update for the elapsed time delta.  The fields are the
\* App after it, the displacement requested, and the panic that ended it
\* ("none" when it returned).
UpdateResult(w, px, py, dx, dy, plx, ply, ents, h, turn, fire, delta) ==
    LET ndx == RotX(dx, dy, turn)
        ndy == RotY(dx, dy, turn)
        nplx == RotX(plx, ply, turn)
        nply == RotY(plx, ply, turn)
        rx == MoveRawX(h, ndx, ndy)
        ry == MoveRawY(h, ndx, ndy)
        mx == MoveScaled(rx, rx, ry, delta)
        my == MoveScaled(ry, rx, ry, delta)
        panicX == WallAt(w, py, RAdd(px, mx)) = -1
        px1 == MoveX(w, px, py, mx)
        panicY == WallAt(w, RAdd(py, my), px1) = -1
        py1 == MoveY(w, px1, py, my)
        ents1 == IF fire THEN Append(ents, Fired(px1, py1, ndx, ndy)) ELSE ents
        pr == PruneLoop(w, ents1, Len(ents1), delta)
        base == [ dir_x |-> ndx, dir_y |-> ndy, plane_x |-> nplx,
                  plane_y |-> nply, move_x |-> mx, move_y |-> my,
                  player_x |-> px, player_y |-> py, entities |-> ents,
                  panic |-> "none" ]
    IN  IF panicX THEN [base EXCEPT !.panic = "collision_x"]
        ELSE IF panicY
        THEN [base EXCEPT !.player_x = px1, !.panic = "collision_y"]
        ELSE [base EXCEPT !.player_x = px1, !.player_y = py1,
                          !.entities = pr.entities, !.panic = pr.panic]

\* The elapsed times of a frame, in seconds.
Deltas == { R(1, 8), R(1, 4), R(1, 2) }

\* Event::MainEventsCleared: process_event returns true (input.rs:125-130)
\* and the closure of main runs the full-screen toggle, the exit test,
\* update and request_redraw (main.rs:100-117).
MainEventsCleared ==
    /\ pc = "events"
    /\ fullscreen' = IF is_just_pressed(just_pressed, "F")
                     THEN ~fullscreen ELSE fullscreen
    /\ control_flow' = IF is_just_pressed(just_pressed, "Q") \/ request_exit
                       THEN "Exit" ELSE control_flow
    /\ \E dt \in Deltas :
         \* input.rs:126  delta_time = start_time.map(|t| t.elapsed())
         /\ delta_time' = IF start_time = "None" THEN << >> ELSE << dt >>
         /\ start_time' = "Some"
         /\ IF start_time = "None"
            THEN \* main.rs:202  elapsed().unwrap()
                 /\ panic' = "unwrap"
                 /\ pc' = "panicked"
                 /\ UNCHANGED trace
                 /\ UNCHANGED <<camVars, entities, move_x, move_y,
                                prev_x, prev_y>>
            ELSE \E u \in { UpdateResult(walls, player_x, player_y, dir_x,
                                dir_y, plane_x, plane_y, entities, held,
                                mouse_motion,
                                is_mouse_just_pressed_left(mouse_buttons,
                                                           old_mouse_buttons),
                                dt) } :
                 /\ dir_x' = u.dir_x /\ dir_y' = u.dir_y
                 /\ plane_x' = u.plane_x /\ plane_y' = u.plane_y
                 /\ player_x' = u.player_x /\ player_y' = u.player_y
                 /\ entities' = u.entities
                 /\ move_x' = u.move_x /\ move_y' = u.move_y
                 /\ prev_x' = player_x /\ prev_y' = player_y
                 /\ panic' = u.panic
                 /\ pc' = IF u.panic # "none" THEN "panicked" ELSE "redraw"
                 /\ trace' = IF u.panic # "none" THEN trace
                              ELSE Append(trace, "update")
                 /\ UNCHANGED walls
    /\ UNCHANGED <<just_pressed, held, released, request_exit, request_resize,
                   mouse_motion, mouse_buttons, old_mouse_buttons, keys_down,
                   left_clicked, rayVars, drawVars, frames, pending>>

(***************************************************************************)
(* SpecUpdate: one update, from any camera pose of the program's map and    *)
(* of a map with an open edge.                                             *)
(***************************************************************************)
AxisDirs ==
    { <<RInt(-1), RInt(0)>>, <<RInt(1), RInt(0)>>,
      <<RInt(0), RInt(-1)>>, <<RInt(0), RInt(1)>> }
\* The turns of a frame: none, and the angle with cosine 3/5 and sine 4/5.
Turns == { NoTurn, << R(3, 5), R(4, 5) >> }
\* The keys held when the update runs.
HeldSets == { << >>, <<"W">>, <<"A">>, <<"W", "D">>, <<"W", "S">> }
\* Projectiles in flight before the update, besides the five entities of
\* App::new.
\* Each with the state of the left mouse button.
FlightSets ==
    { << FALSE, << >> >>,
      << TRUE, << >> >>,
      << FALSE, << Fired(R(13, 2), R(3, 2), RInt(1), RInt(0)) >> >>,
      << TRUE, << Fired(R(3, 2), R(5, 2), RInt(0), RInt(1)),
                  Fired(R(5, 2), R(17, 2), R(3, 5), R(-4, 5)) >> >> }

InitUpdate ==
    /\ walls \in {DefaultWalls, GapWalls}
    /\ player_x \in GridCoords(walls)
    /\ player_y \in GridCoords(walls)
    /\ InEmptyCell(walls, player_x, player_y)
    /\ \E d \in AxisDirs :
          /\ dir_x = d[1] /\ dir_y = d[2]
          /\ plane_x = PlaneOf(d)[1] /\ plane_y = PlaneOf(d)[2]
    /\ \E f \in FlightSets :
          /\ entities = DefaultEntities \o f[2]
          /\ mouse_buttons = << f[1], FALSE >>
          /\ left_clicked = f[1]
    /\ just_pressed = << >> /\ released = << >>
    /\ held \in HeldSets
    /\ keys_down = { held[i] : i \in 1..Len(held) }
    /\ request_exit = FALSE /\ request_resize = "None"
    /\ mouse_motion \in Turns
    /\ old_mouse_buttons = << FALSE, FALSE >>
    /\ start_time = "Some" /\ delta_time = << >>
    /\ move_x = RInt(0) /\ move_y = RInt(0)
    /\ prev_x = player_x /\ prev_y = player_y
    /\ panic = "none"
    /\ col = 0
    /\ dda = DdaStart(player_x, player_y, dir_x, dir_y, plane_x, plane_y, 0)
    /\ steps = 0 /\ visited = << >>
    /\ DrawIdle /\ LoopIdle
    /\ pc = "events"

NextUpdate == MainEventsCleared
SpecUpdate == InitUpdate /\ [][NextUpdate]_vars

(***************************************************************************)
(* Claims about App::update, checked under SpecUpdate.                     *)
(***************************************************************************)
\* An update has run since the initial state (to its end or to a panic of
\* one of its wall lookups).
UpdateRan == pc \in {"redraw", "panicked"} /\ panic # "unwrap"
\* The wall cells the two collision tests of the last update looked at
\* (-1: no such cell).
DestCellX == WallAt(walls, prev_y, RAdd(prev_x, move_x))
DestCellY == WallAt(walls, RAdd(prev_y, move_y), player_x)

\* C2: the collision of the camera is tested per axis on the destination
\* cell.  When the wall cell at (x + move_x, y) is solid, x is unchanged;
\* when it is empty, x changes by the whole of move_x.  Then, with that x,
\* when the wall cell at (x, y + move_y) is solid, y is unchanged; when it
\* is empty, y changes by the whole of move_y.
C2_AxisCollision ==
    UpdateRan =>
        /\ (DestCellX > 0 => player_x = prev_x)
        /\ (DestCellX = 0 => player_x = RAdd(prev_x, move_x))
        /\ (DestCellX # -1 /\ DestCellY > 0 => player_y = prev_y)
        /\ (DestCellX # -1 /\ DestCellY = 0 =>
               player_y = RAdd(prev_y, move_y))
\* The camera slid along a wall: blocked on y, moved on x.
C2_Witness ==
    /\ pc = "redraw"
    /\ IsFinite(move_x) /\ move_x.n # 0
    /\ IsFinite(move_y) /\ move_y.n # 0
    /\ DestCellX = 0 /\ DestCellY > 0
    /\ player_x = RAdd(prev_x, move_x)
    /\ player_y = prev_y

\* C3 as stated: no lookup of the wall grid fails.  The lookups of the
\* camera collision and of the entity pruning never end the program, and
\* a DDA loop that steps outside the grid takes the cell as solid.
C3_LookupsNeverFail ==
    /\ panic \notin {"collision_x", "collision_y", "prune"}
    /\ (pc \in {"dda", "ray_done"} /\ steps > 0
            /\ OutOfGrid(walls, dda.map_x, dda.map_y) => dda.hit # 0)

\* The entity is inside the map extent and on an empty cell.
OnEmptyMapCell(w, e) ==
    /\ RGe(e.x_pos, RInt(0)) /\ RLt(e.x_pos, RInt(MapW(w)))
    /\ RGe(e.y_pos, RInt(0)) /\ RLt(e.y_pos, RInt(MapH(w)))
    /\ w[AsI32(e.y_pos) + 1][AsI32(e.x_pos) + 1] = 0
\* C4 as stated: every update that reaches its entity pass completes it, and
\* leaves no entity outside the map extent or on a solid wall cell.
C4_PrunedAfterUpdate ==
    (UpdateRan /\ panic \notin {"collision_x", "collision_y"}) =>
        /\ panic = "none"
        /\ \A i \in 1..Len(entities) : OnEmptyMapCell(walls, entities[i])

(***************************************************************************)
(* Renderer (renderer.rs).  Its width and height are WIDTH and HEIGHT       *)
(* (main.rs:77).  A colour is modelled by the name of the pass that wrote   *)
(* it.                                                                      *)
(***************************************************************************)
Min(a, b) == IF a < b THEN a ELSE b
Max(a, b) == IF a > b THEN a ELSE b
\* Renderer::fill (renderer.rs:38-40)
ClearFrame == [i \in Pixels |-> "clear"]
\* renderer.rs:197  the guard of draw_pixel
PixelRejected(x, y) == x < 0 \/ x > WIDTH \/ y < 0 \/ y >= HEIGHT
\* renderer.rs:201  the offset of the pixel, in pixels
PixelOffset(x, y) == y * WIDTH + x
\* Renderer::draw_pixel (renderer.rs:196-207): the frame after the call, and
\* the panic of an index beyond the buffer.
draw_pixel(f, colour, x, y) ==
    IF PixelRejected(x, y) THEN [frame |-> f, panic |-> "none"]
    ELSE IF PixelOffset(x, y) \notin Pixels
    THEN [frame |-> f, panic |-> "draw_pixel"]
    ELSE [frame |-> [f EXCEPT ![PixelOffset(x, y)] = colour],
          panic |-> "none"]

(***************************************************************************)
(* SpecPixel: one call of draw_pixel on a cleared frame, with coordinates   *)
(* inside and around the viewport.                                          *)
(***************************************************************************)
\* How far outside the viewport the coordinates of a call go.
PixelMargin == 2
InitPixel ==
    /\ walls = DefaultWalls
    /\ player_x = R(3, 2) /\ player_y = R(3, 2)
    /\ dir_x = RInt(-1) /\ dir_y = RInt(0)
    /\ plane_x = RInt(0) /\ plane_y = R(WIDTH, 2 * HEIGHT)
    /\ entities = DefaultEntities
    /\ InputManagerNew
    /\ move_x = RInt(0) /\ move_y = RInt(0)
    /\ prev_x = player_x /\ prev_y = player_y
    /\ panic = "none"
    /\ col = 0
    /\ dda = DdaStart(player_x, player_y, dir_x, dir_y, plane_x, plane_y, 0)
    /\ steps = 0 /\ visited = << >>
    /\ z_buffer = EmptyZBuffer /\ sprite_log = << >>
    /\ frame = ClearFrame
    /\ \E x \in (-PixelMargin)..(WIDTH + PixelMargin),
          y \in (-PixelMargin)..(HEIGHT + PixelMargin) :
          call = [x |-> x, y |-> y]
    /\ LoopIdle
    /\ pc = "pixel"

\* self.renderer.draw_pixel(colour, call.x, call.y)
DrawPixelCall ==
    /\ pc = "pixel"
    /\ \E r \in { draw_pixel(frame, "pixel", call.x, call.y) } :
          /\ frame' = r.frame
          /\ panic' = r.panic
          /\ pc' = IF r.panic = "none" THEN "pixel_done" ELSE "panicked"
    /\ UNCHANGED <<camVars, inputVars, entities, move_x, move_y, prev_x,
                   prev_y, rayVars, z_buffer, sprite_log, call, loopVars>>

NextPixel == DrawPixelCall
SpecPixel == InitPixel /\ [][NextPixel]_vars

\* The coordinate is outside the viewport.
OutOfBounds(x, y) == x < 0 \/ x >= WIDTH \/ y < 0 \/ y >= HEIGHT
\* C10 as stated: a call of draw_pixel with a coordinate outside the
\* viewport returns without failing and leaves every pixel of the frame
\* buffer as it was.
C10_OutOfBoundsNoOp ==
    (pc \in {"pixel_done", "panicked"} /\ OutOfBounds(call.x, call.y)) =>
        /\ panic = "none"
        /\ frame = ClearFrame

(***************************************************************************)
(* App::draw (main.rs:284-565): the passes after the ray cast.  Which       *)
(* pixels a pass writes is modelled, the texel it reads for each is not.    *)
(***************************************************************************)
\* The pixels a pass hands to draw_pixel, written in turn.
Paint(f, pixels, colour) ==
    [i \in Pixels |->
        IF \E p \in pixels : /\ ~PixelRejected(p[1], p[2])
                             /\ PixelOffset(p[1], p[2]) = i
        THEN colour ELSE f[i]]
\* Whether one of the calls indexes beyond the buffer.
PaintPanics(pixels) ==
    \E p \in pixels : /\ ~PixelRejected(p[1], p[2])
                      /\ PixelOffset(p[1], p[2]) \notin Pixels

\* Renderer::draw_sub_texture (renderer.rs:249-264): the pixels of the
\* w x h rectangle at (x, y) that pass the test of lines 255-259.
SubTexturePixels(x, y, w, h) ==
    (Max(x, 0)..Min(x + w - 1, WIDTH - 1))
        \X (Max(y, 0)..Min(y + h - 1, HEIGHT - 1))

\* App::new, main.rs:157-180
DefaultFloor == [y \in 1..10 |-> [x \in 1..10 |-> 1]]
DefaultCeiling ==
    [y \in 1..10 |-> [x \in 1..10 |-> IF (x + y) % 2 = 0 THEN 2 ELSE 3]]
\* grid.get(cy as usize).map(|row| row.get(cx as usize)), main.rs:375-379:
\* the id of the cell, 0 when there is no such cell.
TileId(grid, cx, cy) ==
    IF cy < 0 \/ cy >= Len(grid) THEN 0
    ELSE IF cx < 0 \/ cx >= Len(grid[cy + 1]) THEN 0
    ELSE grid[cy + 1][cx + 1]

\* main.rs:360
RowDist(y) == RDiv(RInt(HEIGHT), RInt(2 * y - HEIGHT))
\* main.rs:362-363  for one coordinate: d and p are dir and plane
FloorStep(d, p, y) ==
    RDiv(RMul(RowDist(y), RSub(RSub(d, p), RAdd(d, p))), RInt(WIDTH))
\* main.rs:365-366, and lines 425-426 repeated x times
RECURSIVE FloorCoord(_, _, _, _, _)
FloorCoord(pos, d, p, y, x) ==
    IF x = 0 THEN RAdd(pos, RMul(RowDist(y), RAdd(d, p)))
    ELSE RAdd(FloorCoord(pos, d, p, y, x - 1), FloorStep(d, p, y))
\* main.rs:371-398  the columns of row y that get a floor pixel
FloorColumns(grid, px, py, dx, dy, plx, ply, y) ==
    { x \in 0..(WIDTH - 1) :
        TileId(grid, AsI32(FloorCoord(px, dx, plx, y, x)),
                     AsI32(FloorCoord(py, dy, ply, y, x))) > 0 }
\* main.rs:353-428  the rows from y on: the floor pixels of row y, then the
\* ceiling pixels of row HEIGHT - y
RECURSIVE FloorRows(_, _, _, _, _, _, _, _)
FloorRows(f, px, py, dx, dy, plx, ply, y) ==
    IF y >= HEIGHT THEN f
    ELSE LET fl == { <<x, y>> :
                       x \in FloorColumns(DefaultFloor, px, py, dx, dy,
                                          plx, ply, y) }
             ce == { <<x, HEIGHT - y>> :
                       x \in FloorColumns(DefaultCeiling, px, py, dx, dy,
                                          plx, ply, y) }
         IN  FloorRows(Paint(Paint(f, fl, "floor"), ce, "ceiling"),
                       px, py, dx, dy, plx, ply, y + 1)

\* `f.ceil() as i32`
CeilAsI32(a) == IF a.d = 0 THEN AsI32(a) ELSE RCeilInt(a)
\* main.rs:462
LineHeight(ray) == CeilAsI32(RDiv(RInt(HEIGHT), ray.ray_dist))
\* main.rs:463
LineTop(ray) == CeilAsI32(R(HEIGHT - LineHeight(ray), 2))
\* main.rs:430-483  the pixels of the wall slices of all columns
WallPixels(z) ==
    UNION { SubTexturePixels(x, LineTop(z[x][1]), 1, LineHeight(z[x][1])) :
              x \in 0..(WIDTH - 1) }

\* The width and height of a texture, in texels.
TexSize == 8
\* i32 addition: whether it overflows, and its wrapped value.
AddOverflows(a, b) ==
    \/ a > 0 /\ b > 0 /\ a > I32Max - b
    \/ a < 0 /\ b < 0 /\ a < (-I32Max - b) - 1
WrappingAdd(a, b) ==
    IF a > 0 /\ b > 0 /\ a > I32Max - b
    THEN ((a - I32Max) - 1) + ((b - I32Max) - 1)
    ELSE IF a < 0 /\ b < 0 /\ a < (-I32Max - b) - 1
    THEN ((a + I32Max) + 1) + ((b + I32Max) + 1)
    ELSE a + b
\* x.clamp(lo, hi)
Clamp(x, lo, hi) == Max(lo, Min(x, hi))

\* main.rs:485-494  the indices of the entities, farthest first; the sort
\* is stable
Dist2(px, py, e) ==
    RAdd(RMul(RSub(px, e.x_pos), RSub(px, e.x_pos)),
         RMul(RSub(py, e.y_pos), RSub(py, e.y_pos)))
DrawOrder(px, py, ents) ==
    LET before(j, i) ==
            \/ RGt(Dist2(px, py, ents[j]), Dist2(px, py, ents[i]))
            \/ Dist2(px, py, ents[j]) = Dist2(px, py, ents[i]) /\ j < i
        rank(i) == Cardinality({ j \in 1..Len(ents) : before(j, i) }) + 1
    IN  [k \in 1..Len(ents) |-> CHOOSE i \in 1..Len(ents) : rank(i) = k]

\* main.rs:499-502  the position of the entity in camera space
InvDet(dx, dy, plx, ply) ==
    RDiv(RInt(1), RSub(RMul(plx, dy), RMul(dx, ply)))
TransformX(px, py, dx, dy, plx, ply, e) ==
    RMul(InvDet(dx, dy, plx, ply),
         RSub(RMul(dy, RSub(e.x_pos, px)), RMul(dx, RSub(e.y_pos, py))))
TransformY(px, py, dx, dy, plx, ply, e) ==
    RMul(InvDet(dx, dy, plx, ply),
         RAdd(RMul(RNeg(ply), RSub(e.x_pos, px)),
              RMul(plx, RSub(e.y_pos, py))))
\* main.rs:508
SpriteScreenX(tx, ty) ==
    AsI32(RMul(RInt(WIDTH \div 2), RAdd(RInt(1), RDiv(tx, ty))))
\* main.rs:510-511
SpriteSize(ty) == Abs(AsI32(RDiv(RInt(HEIGHT), ty)))

\* Mutant: every stripe passes, whatever the stored distance.
StripeVisible_NoDepthTest(z, x, ty) == ~IsNaN(ty)
\* main.rs:529  the depth test of stripe x
StripeVisible(z, x, ty) == RGe(z[WIDTH - x - 1][1].ray_dist, ty)

\* main.rs:496-563 for one entity: what the pass computes and the pixels it
\* writes.  overflow: an i32 operation overflows on the way (the build
\* either panics there or goes on with the wrapped value).
SpriteOf(px, py, dx, dy, plx, ply, z, i, e) ==
    LET tx == TransformX(px, py, dx, dy, plx, ply, e)
        ty == TransformY(px, py, dx, dy, plx, ply, e)
        ssx == SpriteScreenX(tx, ty)
        size == SpriteSize(ty)
        start_y == -(size \div 2) + HEIGHT \div 2
        start_x == WrappingAdd(-(size \div 2), ssx)
        end_x == WrappingAdd(size \div 2, ssx)
        stripes == { x \in Clamp(start_x, 0, WIDTH - 1)
                             ..(Clamp(end_x, 0, WIDTH - 1) - 1) :
                       StripeVisible(z, x, ty) }
        last == CHOOSE x \in stripes : \A o \in stripes : o <= x
        skipped == RLt(ty, RInt(0))
    IN  [ index |-> i, depth |-> ty, skipped |-> skipped,
          start_x |-> IF skipped THEN 0 ELSE start_x,
          end_x |-> IF skipped THEN 0 ELSE end_x,
          stripes |-> IF skipped THEN {} ELSE stripes,
          overflow |->
              /\ ~skipped
              /\ \/ AddOverflows(-(size \div 2), ssx)
                 \/ AddOverflows(size \div 2, ssx)
                 \/ /\ stripes # {}
                    /\ Abs(last - start_x) > I32Max \div (256 * TexSize),
          pixels |->
              IF skipped \/ stripes = {} THEN {}
              ELSE SubTexturePixels(WIDTH - last - 2, start_y,
                                    Cardinality(stripes) + 1, size) ]
\* The pass over all entities, in drawing order.
SpriteLog(px, py, dx, dy, plx, ply, z, ents) ==
    LET order == DrawOrder(px, py, ents)
    IN  [k \in 1..Len(ents) |->
            SpriteOf(px, py, dx, dy, plx, ply, z, order[k], ents[order[k]])]
\* The frame after the first n entries of the log are drawn.
RECURSIVE PaintSprites(_, _, _)
PaintSprites(f, log, n) ==
    IF n = 0 THEN f
    ELSE Paint(PaintSprites(f, log, n - 1), log[n].pixels, "sprite")
\* The first entry with an overflow, or 0.
FirstOverflow(log) ==
    IF \E k \in 1..Len(log) : log[k].overflow
    THEN CHOOSE k \in 1..Len(log) :
            log[k].overflow /\ \A j \in 1..(k - 1) : ~log[j].overflow
    ELSE 0

(***************************************************************************)
(* Event::RedrawRequested (main.rs:91-97): App::draw pass by pass, then     *)
(* App::render.                                                             *)
(***************************************************************************)
\* main.rs:285  draw begins: the frame is filled with black
RedrawRequested ==
    /\ pc = "redraw"
    /\ frame' = ClearFrame
    /\ z_buffer' = EmptyZBuffer
    /\ sprite_log' = << >>
    /\ pc' = "cast"
    /\ UNCHANGED <<camVars, inputVars, updVars, rayVars, call, loopVars>>

\* Mutant: a worker appends its result to the results gathered so far.
CastColumn_Queue(x) ==
    /\ pc = "cast"
    /\ z_buffer[x] = << >>
    /\ LET free == CHOOSE k \in 0..(WIDTH - 1) :
                      /\ z_buffer[k] = << >>
                      /\ \A j \in 0..(k - 1) : z_buffer[j] # << >>
       IN  z_buffer' = [z_buffer EXCEPT ![free] =
                           << CastRay(walls, player_x, player_y, dir_x, dir_y,
                                      plane_x, plane_y, x) >>]
    /\ UNCHANGED <<pc, camVars, inputVars, updVars, rayVars, frame,
                   sprite_log, call, loopVars>>

\* main.rs:288-350  a worker of the parallel iterator runs the closure for
\* column x; the indexed collect stores the result at index x.
CastColumn(x) ==
    /\ pc = "cast"
    /\ z_buffer[x] = << >>
    /\ z_buffer' = [z_buffer EXCEPT ![x] =
                       << CastRay(walls, player_x, player_y, dir_x, dir_y,
                                  plane_x, plane_y, x) >>]
    /\ UNCHANGED <<pc, camVars, inputVars, updVars, rayVars, frame,
                   sprite_log, call, loopVars>>

\* main.rs:351  collect returns when every column has its result
Collect ==
    /\ pc = "cast"
    /\ \A x \in 0..(WIDTH - 1) : z_buffer[x] # << >>
    /\ pc' = "floor"
    /\ trace' = Append(trace, "cast")
    /\ UNCHANGED <<camVars, inputVars, updVars, rayVars, drawVars, frames,
                   control_flow, fullscreen, pending>>

\* main.rs:288-351 as one step: all columns cast and collected.
RayCast ==
    /\ pc = "cast"
    /\ z_buffer' = [x \in 0..(WIDTH - 1) |->
                       << CastRay(walls, player_x, player_y, dir_x, dir_y,
                                  plane_x, plane_y, x) >>]
    /\ pc' = "floor"
    /\ trace' = Append(trace, "cast")
    /\ UNCHANGED <<camVars, inputVars, updVars, rayVars, frame, sprite_log,
                   call, frames, control_flow, fullscreen, pending>>

\* main.rs:353-428
FloorCeiling ==
    /\ pc = "floor"
    /\ frame' = FloorRows(frame, player_x, player_y, dir_x, dir_y,
                          plane_x, plane_y, HEIGHT \div 2)
    /\ pc' = "walls"
    /\ trace' = Append(trace, "floor")
    /\ UNCHANGED <<camVars, inputVars, updVars, rayVars, z_buffer,
                   sprite_log, call, frames, control_flow, fullscreen,
                   pending>>

\* main.rs:430-483
Walls ==
    /\ pc = "walls"
    /\ frame' = Paint(frame, WallPixels(z_buffer), "wall")
    /\ pc' = "sprites"
    /\ trace' = Append(trace, "walls")
    /\ UNCHANGED <<camVars, inputVars, updVars, rayVars, z_buffer,
                   sprite_log, call, frames, control_flow, fullscreen,
                   pending>>

\* main.rs:485-564.  On an i32 overflow the pass either ends the program at
\* that entity (the overflow check of a debug build, or the bounds check of
\* the texture view on the wrapped values) or goes on with the wrapped
\* values.
Sprites ==
    /\ pc = "sprites"
    /\ \E log \in { SpriteLog(player_x, player_y, dir_x, dir_y, plane_x,
                              plane_y, z_buffer, entities) } :
       \E outcome \in {"abort", "wrap"} :
          LET k == FirstOverflow(log)
          IN  IF outcome = "abort" /\ k > 0
              THEN /\ sprite_log' =
                          [j \in 1..k |->
                              IF j = k THEN [log[j] EXCEPT !.pixels = {}]
                              ELSE log[j]]
                   /\ frame' = PaintSprites(frame, log, k - 1)
                   /\ panic' = "sprite_overflow"
                   /\ pc' = "panicked"
                   /\ UNCHANGED trace
              ELSE /\ sprite_log' = log
                   /\ frame' = PaintSprites(frame, log, Len(log))
                   /\ pc' = "render"
                   /\ trace' = Append(trace, "sprites")
                   /\ UNCHANGED panic
    /\ UNCHANGED <<camVars, inputVars, entities, move_x, move_y, prev_x,
                   prev_y, rayVars, z_buffer, call, frames, control_flow,
                   fullscreen, pending>>

\* Mutant: the frame is presented while draw is still at work on it.
Render_DuringDraw ==
    /\ pc \in {"floor", "walls", "sprites", "render"}
    /\ \E ok \in BOOLEAN :
          /\ frames' = IF ok THEN frames + 1 ELSE frames
          /\ trace' = Append(trace, IF ok THEN "present" ELSE "render_err")
          /\ control_flow' = IF ok THEN control_flow ELSE "Exit"
    /\ pc' = "loop"
    /\ UNCHANGED <<camVars, inputVars, updVars, rayVars, drawVars,
                   fullscreen, pending>>

\* main.rs:93-96  App::render presents the frame; on an error the loop is
\* told to exit.
Render ==
    /\ pc = "render"
    /\ \E ok \in BOOLEAN :
          /\ frames' = IF ok THEN frames + 1 ELSE frames
          /\ trace' = Append(trace, IF ok THEN "present" ELSE "render_err")
          /\ control_flow' = IF ok THEN control_flow ELSE "Exit"
    /\ pc' = "loop"
    /\ UNCHANGED <<camVars, inputVars, updVars, rayVars, drawVars,
                   fullscreen, pending>>

(***************************************************************************)
(* SpecDraw: one redraw, with the ray-cast workers interleaved.             *)
(***************************************************************************)
\* Camera poses of the program's map: the initial one; one with entities in
\* view; one on the line of the columns and barrels, where depths are zero;
\* an oblique one, with entities behind a wall.
DrawPoses ==
    { << R(3, 2), R(3, 2), <<RInt(-1), RInt(0)>> >>,
      << R(9, 2), R(3, 2), <<RInt(1), RInt(0)>> >>,
      << R(17, 2), R(5, 2), <<RInt(-1), RInt(0)>> >>,
      << R(9, 2), R(5, 2), <<R(4, 5), R(3, 5)>> >> }
InitDraw ==
    /\ walls = DefaultWalls
    /\ \E p \in DrawPoses :
          /\ player_x = p[1] /\ player_y = p[2]
          /\ dir_x = p[3][1] /\ dir_y = p[3][2]
          /\ plane_x = PlaneOf(p[3])[1] /\ plane_y = PlaneOf(p[3])[2]
    /\ entities = DefaultEntities
    /\ just_pressed = << >> /\ held = << >> /\ released = << >>
    /\ request_exit = FALSE /\ request_resize = "None"
    /\ mouse_motion = NoTurn
    /\ mouse_buttons = << FALSE, FALSE >>
    /\ old_mouse_buttons = << FALSE, FALSE >>
    /\ start_time = "Some" /\ delta_time = << R(1, 8) >>
    /\ keys_down = {} /\ left_clicked = FALSE
    /\ move_x = NaN /\ move_y = NaN
    /\ prev_x = player_x /\ prev_y = player_y
    /\ panic = "none"
    /\ col = 0
    /\ dda = DdaStart(player_x, player_y, dir_x, dir_y, plane_x, plane_y, 0)
    /\ steps = 0 /\ visited = << >>
    /\ DrawIdle
    /\ trace = << "update" >>
    /\ frames = 0 /\ control_flow = "Poll" /\ fullscreen = FALSE
    /\ pending = 0
    /\ pc = "redraw"

NextDraw ==
    \/ RedrawRequested
    \/ \E x \in 0..(WIDTH - 1) : CastColumn(x)
    \/ Collect
    \/ FloorCeiling
    \/ Walls
    \/ Sprites
    \/ Render
SpecDraw == InitDraw /\ [][NextDraw]_vars

(***************************************************************************)
(* Claims about App::draw, checked under SpecDraw.                          *)
(***************************************************************************)
\* The result of the closure for column x, for the camera of this frame.
RayOfColumn(x) ==
    CastRay(walls, player_x, player_y, dir_x, dir_y, plane_x, plane_y, x)
\* The passes that read the result array have started.
PassesStarted == pc \in {"floor", "walls", "sprites", "render", "loop"}

\* C5: whatever the order in which the workers of the parallel ray cast
\* finish, a slot of the result array that is filled holds the result of
\* its own column, and once the floor/ceiling, wall or sprite pass has
\* started all WIDTH slots are filled.
C5_BarrierIndexStable ==
    /\ pc \in {"cast", "floor", "walls", "sprites", "render", "loop"} =>
          \A x \in 0..(WIDTH - 1) :
             z_buffer[x] # << >> => z_buffer[x] = << RayOfColumn(x) >>
    /\ PassesStarted => \A x \in 0..(WIDTH - 1) : z_buffer[x] # << >>
\* The passes run on a full array whose columns differ.
C5_Witness ==
    /\ pc = "walls"
    /\ \A x \in 0..(WIDTH - 1) : z_buffer[x] = << RayOfColumn(x) >>
    /\ z_buffer[0][1].ray_dist # z_buffer[WIDTH - 1][1].ray_dist
    /\ z_buffer[0][1].map_y # z_buffer[WIDTH - 1][1].map_y

\* The screen columns the projected span of a logged sprite overlaps: the
\* mirror images of the stripes between its two ends that the pass tests.
SpanColumns(sp) ==
    { WIDTH - 1 - x :
        x \in Clamp(sp.start_x, 0, WIDTH - 1)
                ..(Clamp(sp.end_x, 0, WIDTH - 1) - 1) }
\* The depth of the sprite is greater than the stored distance of every
\* column of its span.
Occluded(sp) ==
    \A c \in SpanColumns(sp) : RGt(sp.depth, z_buffer[c][1].ray_dist)

\* C7: after the sprite pass, a sprite whose depth is greater than the
\* stored ray distance of every screen column its span overlaps has
\* written no pixel.
C7_OccludedSpriteDrawsNothing ==
    pc \in {"render", "loop", "panicked"} =>
        \A k \in 1..Len(sprite_log) :
            Occluded(sprite_log[k]) => sprite_log[k].pixels = {}
\* A sprite in front of the camera, on screen, behind a wall on its whole
\* span; another sprite of the same frame is drawn.
C7_Witness ==
    /\ pc = "render"
    /\ \E k \in 1..Len(sprite_log) :
          /\ ~sprite_log[k].skipped
          /\ RGt(sprite_log[k].depth, RInt(0))
          /\ Cardinality(SpanColumns(sprite_log[k])) >= 2
          /\ Occluded(sprite_log[k])
          /\ sprite_log[k].pixels = {}
    /\ \E k \in 1..Len(sprite_log) : sprite_log[k].pixels # {}

(***************************************************************************)
(* Spec: the program.  The event loop of main (main.rs:88-118) delivers,    *)
(* in each of its iterations, NewEvents, the window and device events,      *)
(* MainEventsCleared, RedrawRequested for the redraw requested, and         *)
(* RedrawEventsCleared.  The ray cast of a redraw is one step here;         *)
(* SpecDraw resolves it into its workers.                                   *)
(***************************************************************************)
\* The frames the program presents, and the window and device events of
\* one iteration of the loop.
MaxFrames == 2
MaxEvents == 1
Keys == {"W", "Q", "F"}

\* App::new (main.rs:134-189) and InputManager::new.
Init ==
    /\ walls = DefaultWalls
    /\ player_x = R(3, 2) /\ player_y = R(3, 2)
    /\ dir_x = RInt(-1) /\ dir_y = RInt(0)
    /\ plane_x = RInt(0) /\ plane_y = R(WIDTH, 2 * HEIGHT)
    /\ entities = DefaultEntities
    /\ InputManagerNew
    /\ move_x = RInt(0) /\ move_y = RInt(0)
    /\ prev_x = player_x /\ prev_y = player_y
    /\ panic = "none"
    /\ col = 0
    /\ dda = DdaStart(player_x, player_y, dir_x, dir_y, plane_x, plane_y, 0)
    /\ steps = 0 /\ visited = << >>
    /\ DrawIdle /\ LoopIdle
    /\ pc = "new_events"

\* input.rs:36-48
NewEvents ==
    /\ pc = "new_events"
    /\ request_resize' = "None"
    /\ request_exit' = FALSE
    /\ just_pressed' = << >>
    /\ released' = << >>
    /\ mouse_motion' = NoTurn
    /\ old_mouse_buttons' = mouse_buttons
    /\ start_time' = "Some"
    /\ delta_time' = << >>
    /\ pc' = "events"
    /\ pending' = 0
    /\ trace' = << >>
    /\ left_clicked' = FALSE
    /\ UNCHANGED <<camVars, held, mouse_buttons, keys_down, updVars, rayVars,
                   drawVars, frames, control_flow, fullscreen>>

\* What an event between NewEvents and MainEventsCleared leaves alone.
EventFrame ==
    /\ pc = "events"
    /\ pending < MaxEvents
    /\ pending' = pending + 1
    /\ UNCHANGED <<pc, camVars, start_time, delta_time, updVars, rayVars,
                   drawVars, trace, frames, control_flow, fullscreen>>

\* input.rs:49-55
Resized ==
    /\ EventFrame
    /\ request_resize' = "Some"
    /\ UNCHANGED <<just_pressed, held, released, request_exit, mouse_motion,
                   mouse_buttons, old_mouse_buttons, keys_down, left_clicked>>
\* input.rs:56-62
CloseRequested ==
    /\ EventFrame
    /\ request_exit' = TRUE
    /\ UNCHANGED <<just_pressed, held, released, request_resize,
                   mouse_motion, mouse_buttons, old_mouse_buttons, keys_down,
                   left_clicked>>
\* input.rs:63-81
KeyPressedArm(k) ==
    /\ IF ~Contains(just_pressed, k)
       THEN /\ just_pressed' = Append(just_pressed, k)
            /\ held' = Append(held, k)
       ELSE UNCHANGED <<just_pressed, held>>
    /\ keys_down' = keys_down \cup {k}
    /\ UNCHANGED <<released, request_exit, request_resize, mouse_motion,
                   mouse_buttons, old_mouse_buttons, left_clicked>>
KeyPressed(k) == EventFrame /\ KeyPressedArm(k)
\* input.rs:82-93
MouseInputArm(button, pressed) ==
    /\ mouse_buttons' =
          IF button = "Left" THEN [mouse_buttons EXCEPT ![1] = pressed]
          ELSE IF button = "Right" THEN [mouse_buttons EXCEPT ![2] = pressed]
          ELSE mouse_buttons
    /\ left_clicked' = (left_clicked \/
                           (button = "Left" /\ pressed /\ ~mouse_buttons[1]))
    /\ UNCHANGED <<just_pressed, held, released, request_exit,
                   request_resize, mouse_motion, old_mouse_buttons,
                   keys_down>>
MouseInput(button, pressed) == EventFrame /\ MouseInputArm(button, pressed)
\* input.rs:94-100
MouseMotion(turn) ==
    /\ EventFrame
    /\ mouse_motion' = turn
    /\ UNCHANGED <<just_pressed, held, released, request_exit,
                   request_resize, mouse_buttons, old_mouse_buttons,
                   keys_down, left_clicked>>
\* input.rs:101-124
KeyReleasedArm(k) ==
    /\ IF ~Contains(released, k)
       THEN /\ released' = Append(released, k)
            /\ held' = SelectSeq(held, LAMBDA key : key # k)
       ELSE UNCHANGED <<released, held>>
    /\ keys_down' = keys_down \ {k}
    /\ UNCHANGED <<just_pressed, request_exit, request_resize, mouse_motion,
                   mouse_buttons, old_mouse_buttons, left_clicked>>
KeyReleased(k) == EventFrame /\ KeyReleasedArm(k)

\* The iteration ends (Event::RedrawEventsCleared, input.rs:131) and the
\* loop goes on polling.
RedrawEventsCleared ==
    /\ pc = "loop"
    /\ control_flow = "Poll"
    /\ frames < MaxFrames
    /\ pc' = "new_events"
    /\ UNCHANGED <<camVars, inputVars, updVars, rayVars, drawVars, loopVars>>
\* The loop ends once it was told to exit (main.rs:94, main.rs:112),
\* before or after the redraw of the iteration.
LoopDestroyed ==
    /\ pc \in {"redraw", "loop"}
    /\ control_flow = "Exit"
    /\ pc' = "exited"
    /\ UNCHANGED <<camVars, inputVars, updVars, rayVars, drawVars, loopVars>>

Next ==
    \/ NewEvents
    \/ Resized
    \/ CloseRequested
    \/ \E k \in Keys : KeyPressed(k)
    \/ \E b \in {"Left", "Right", "Other"}, st \in BOOLEAN : MouseInput(b, st)
    \/ \E t \in Turns : MouseMotion(t)
    \/ \E k \in Keys : KeyReleased(k)
    \/ MainEventsCleared
    \/ RedrawRequested
    \/ RayCast
    \/ FloorCeiling
    \/ Walls
    \/ Sprites
    \/ Render
    \/ RedrawEventsCleared
    \/ LoopDestroyed
Spec == Init /\ [][Next]_vars

(***************************************************************************)
(* Claims about the frame pipeline, checked under Spec.                     *)
(***************************************************************************)
\* The stages of a presented frame, in order.
Pipeline == << "update", "cast", "floor", "walls", "sprites", "present" >>
IsPrefix(a, b) ==
    /\ Len(a) <= Len(b)
    /\ \A i \in 1..Len(a) : a[i] = b[i]
\* The stages run so far in this iteration of the loop, without its last.
Front(t) == SubSeq(t, 1, Len(t) - 1)

\* C6: the stages of every iteration of the loop run in the order update,
\* ray cast, floor/ceiling, walls, sprites, present, each at most once: a
\* frame is presented only after exactly the five stages before it, render
\* is called only on a frame whose draw ran to its end, and no update runs
\* after the ray cast of the iteration has begun.
C6_PipelineOrder ==
    /\ \/ IsPrefix(trace, Pipeline)
       \/ /\ trace # << >>
          /\ trace[Len(trace)] = "render_err"
          /\ Front(trace) = Front(Pipeline)
    /\ pc = "render" => trace = Front(Pipeline)
    /\ pc \in {"cast", "floor", "walls", "sprites", "render"} =>
          /\ trace # << >>
          /\ trace[1] = "update"
          /\ \A i \in 2..Len(trace) : trace[i] # "update"
\* The second frame was presented, after all the stages before it, with
\* walls drawn into it.
C6_Witness ==
    /\ pc = "loop"
    /\ frames = 2
    /\ trace = Pipeline
    /\ \E i \in Pixels : frame[i] = "wall"

(***************************************************************************)
(* The line primitives of the Renderer (renderer.rs:43-186).  The frame    *)
(* buffer is walked as chunks_exact_mut(4), one chunk per pixel, so an     *)
(* iterator over it ends at the last pixel and cannot index beyond it.     *)
(***************************************************************************)
\* `n as usize` for an i32 n used as the argument of take(): a negative n
\* becomes a count above 2^63, more than the buffer has pixels.
TakeCount(n) == IF n < 0 THEN WIDTH * HEIGHT ELSE n
\* renderer.rs:44  the guard of draw_vert_line
VertRejected(x, top_y, height) ==
    x < 0 \/ x >= WIDTH \/ top_y >= HEIGHT \/ top_y + height < 0
\* renderer.rs:48-54
ActualHeight(top_y, height) ==
    IF top_y + height > HEIGHT THEN HEIGHT - top_y
    ELSE IF top_y < 0 THEN Max(top_y + height, 0)
    ELSE height
\* renderer.rs:60  the number of pixels skipped
VertSkip(x, top_y) == Clamp(x, 0, WIDTH - 1) + WIDTH * Clamp(top_y, 0, HEIGHT)
\* Renderer::draw_vert_line (renderer.rs:43-68): the frame after the call
\* and the value returned.
draw_vert_line(f, colour, x, top_y, height) ==
    IF VertRejected(x, top_y, height) THEN [frame |-> f, ret |-> -1]
    ELSE LET n == VertSkip(x, top_y)
             ah == ActualHeight(top_y, height)
             taken == { n + k * WIDTH : k \in 0..(TakeCount(ah) - 1) }
         IN  [frame |-> [i \in Pixels |-> IF i \in taken THEN colour
                                          ELSE f[i]],
              ret |-> ah]

\* renderer.rs:72  the guard of draw_hori_line
HoriRejected(left_x, y, width) ==
    y < 0 \/ y >= HEIGHT \/ left_x >= WIDTH \/ left_x + width < 0
\* renderer.rs:76-82
ActualWidth(left_x, width) ==
    IF left_x + width > WIDTH THEN WIDTH - left_x
    ELSE IF left_x < 0 THEN Max(left_x + width, 0)
    ELSE width
\* renderer.rs:88  the number of pixels skipped
HoriSkip(left_x, y) == Clamp(left_x, 0, WIDTH - 1) + WIDTH * Clamp(y, 0, HEIGHT)
\* Renderer::draw_hori_line (renderer.rs:71-95): the frame after the call
\* and the value returned.  The iterator has no step: it runs on into the
\* following rows when it is asked for more pixels than the row has left.
draw_hori_line(f, colour, left_x, y, width) ==
    IF HoriRejected(left_x, y, width) THEN [frame |-> f, ret |-> -1]
    ELSE LET n == HoriSkip(left_x, y)
             aw == ActualWidth(left_x, width)
             taken == n..(n + TakeCount(aw) - 1)
         IN  [frame |-> [i \in Pixels |-> IF i \in taken THEN colour
                                          ELSE f[i]],
              ret |-> aw]

\* renderer.rs:99-105  the early return of draw_line
LineRejected(x1, y1, x2, y2) ==
    \/ (x1 < 0 /\ x2 < 0)
    \/ (x1 >= WIDTH /\ x2 >= WIDTH)
    \/ (y1 < 0 /\ y2 < 0)
    \/ (y1 >= HEIGHT /\ y2 >= HEIGHT)
\* A test that leaves out the lower bounds.
LinePixelTest_NoLowerBound(x, y) == x < WIDTH /\ y < HEIGHT
\* renderer.rs:138, 171  the test before a pixel of a line is stored
LinePixelTest(x, y) == x >= 0 /\ x < WIDTH /\ y >= 0 /\ y < HEIGHT
\* renderer.rs:137-152  the loop of draw_line_high from row y on: the
\* coordinates it visits
RECURSIVE LineHighVisits(_, _, _, _, _, _, _)
LineHighVisits(x, y, y2, d, dx, dy, xi) ==
    IF y > y2 THEN {}
    ELSE {<<x, y>>} \cup
         (IF d > 0
          THEN LineHighVisits(x + xi, y + 1, y2, d + 2 * (dx - dy), dx, dy, xi)
          ELSE LineHighVisits(x, y + 1, y2, d + 2 * dx, dx, dy, xi))
\* Renderer::draw_line_high (renderer.rs:122-153)
draw_line_high(x1, y1, x2, y2) ==
    LET dx == Abs(x2 - x1)
        dy == y2 - y1
        xi == IF x2 - x1 < 0 THEN -1 ELSE 1
    IN  LineHighVisits(x1, y1, y2, 2 * dx - dy, dx, dy, xi)
\* renderer.rs:170-185  the loop of draw_line_low from column x on
RECURSIVE LineLowVisits(_, _, _, _, _, _, _)
LineLowVisits(x, y, x2, d, dx, dy, yi) ==
    IF x > x2 THEN {}
    ELSE {<<x, y>>} \cup
         (IF d > 0
          THEN LineLowVisits(x + 1, y + yi, x2, d + 2 * (dy - dx), dx, dy, yi)
          ELSE LineLowVisits(x + 1, y, x2, d + 2 * dy, dx, dy, yi))
\* Renderer::draw_line_low (renderer.rs:155-186)
draw_line_low(x1, y1, x2, y2) ==
    LET dx == x2 - x1
        dy == Abs(y2 - y1)
        yi == IF y2 - y1 < 0 THEN -1 ELSE 1
    IN  LineLowVisits(x1, y1, x2, 2 * dy - dx, dx, dy, yi)
\* Renderer::draw_line (renderer.rs:98-120): the frame after the call, and
\* the panic of a store beyond the buffer.
draw_line(f, colour, x1, y1, x2, y2) ==
    IF LineRejected(x1, y1, x2, y2) THEN [frame |-> f, panic |-> "none"]
    ELSE LET visits ==
                 IF Abs(y2 - y1) < Abs(x2 - x1)
                 THEN IF x1 > x2 THEN draw_line_low(x2, y2, x1, y1)
                      ELSE draw_line_low(x1, y1, x2, y2)
                 ELSE IF y1 > y2 THEN draw_line_high(x2, y2, x1, y1)
                      ELSE draw_line_high(x1, y1, x2, y2)
             stored == { PixelOffset(p[1], p[2]) :
                            p \in { v \in visits : LinePixelTest(v[1], v[2]) } }
         IN  IF \E i \in stored : i \notin Pixels
             THEN [frame |-> f, panic |-> "draw_line"]
             ELSE [frame |-> [i \in Pixels |-> IF i \in stored THEN colour
                                               ELSE f[i]],
                   panic |-> "none"]

(***************************************************************************)
(* SpecLine: one call of a line primitive on a cleared frame, with         *)
(* coordinates and extents inside, around and across the viewport.         *)
(***************************************************************************)
\* The start coordinates of the calls.
LineXs == (-PixelMargin)..(WIDTH + PixelMargin - 1)
LineYs == (-PixelMargin)..(HEIGHT + PixelMargin - 1)
InitLine ==
    /\ walls = DefaultWalls
    /\ player_x = R(3, 2) /\ player_y = R(3, 2)
    /\ dir_x = RInt(-1) /\ dir_y = RInt(0)
    /\ plane_x = RInt(0) /\ plane_y = R(WIDTH, 2 * HEIGHT)
    /\ entities = DefaultEntities
    /\ InputManagerNew
    /\ move_x = RInt(0) /\ move_y = RInt(0)
    /\ prev_x = player_x /\ prev_y = player_y
    /\ panic = "none"
    /\ col = 0
    /\ dda = DdaStart(player_x, player_y, dir_x, dir_y, plane_x, plane_y, 0)
    /\ steps = 0 /\ visited = << >>
    /\ z_buffer = EmptyZBuffer /\ sprite_log = << >>
    /\ frame = ClearFrame
    /\ \/ \E x \in LineXs, top_y \in LineYs,
             height \in (-(HEIGHT + 2 * PixelMargin))..(HEIGHT + 2 * PixelMargin) :
             call = [kind |-> "vert", x |-> x, top_y |-> top_y,
                     height |-> height, ret |-> << >>]
       \/ \E left_x \in LineXs, y \in LineYs,
             width \in (-(WIDTH + 2 * PixelMargin))..(WIDTH + 2 * PixelMargin) :
             call = [kind |-> "hori", left_x |-> left_x, y |-> y,
                     width |-> width, ret |-> << >>]
       \/ \E x1 \in LineXs, y1 \in LineYs, x2 \in LineXs, y2 \in LineYs :
             call = [kind |-> "line", x1 |-> x1, y1 |-> y1, x2 |-> x2,
                     y2 |-> y2, ret |-> << >>]
    /\ LoopIdle
    /\ pc = "line"

\* let ret = self.renderer.draw_vert_line(colour, call.x, call.top_y, call.height)
DrawVertLineCall ==
    /\ pc = "line" /\ call.kind = "vert"
    /\ \E r \in { draw_vert_line(frame, "line", call.x, call.top_y,
                                 call.height) } :
          /\ frame' = r.frame
          /\ call' = [call EXCEPT !.ret = <<r.ret>>]
    /\ pc' = "line_done"
    /\ UNCHANGED <<camVars, inputVars, updVars, rayVars, z_buffer,
                   sprite_log, loopVars>>

\* let ret = self.renderer.draw_hori_line(colour, call.left_x, call.y, call.width)
DrawHoriLineCall ==
    /\ pc = "line" /\ call.kind = "hori"
    /\ \E r \in { draw_hori_line(frame, "line", call.left_x, call.y,
                                 call.width) } :
          /\ frame' = r.frame
          /\ call' = [call EXCEPT !.ret = <<r.ret>>]
    /\ pc' = "line_done"
    /\ UNCHANGED <<camVars, inputVars, updVars, rayVars, z_buffer,
                   sprite_log, loopVars>>

\* self.renderer.draw_line(colour, call.x1, call.y1, call.x2, call.y2)
DrawLineCall ==
    /\ pc = "line" /\ call.kind = "line"
    /\ \E r \in { draw_line(frame, "line", call.x1, call.y1, call.x2,
                            call.y2) } :
          /\ frame' = r.frame
          /\ panic' = r.panic
          /\ pc' = IF r.panic = "none" THEN "line_done" ELSE "panicked"
    /\ UNCHANGED <<camVars, inputVars, entities, move_x, move_y, prev_x,
                   prev_y, rayVars, z_buffer, sprite_log, call, loopVars>>

NextLine == DrawVertLineCall \/ DrawHoriLineCall \/ DrawLineCall
SpecLine == InitLine /\ [][NextLine]_vars

\* The coordinate is a pixel of the viewport.
InViewport(x, y) == x \in 0..(WIDTH - 1) /\ y \in 0..(HEIGHT - 1)
\* The pixels of the frame buffer a call has written.
Written == { i \in Pixels : frame[i] # "clear" }
\* The pixels of the segment a call of an axis-aligned line draw asks for:
\* `extent` pixels from the start coordinate on, down the column or along
\* the row.
Requested ==
    IF call.kind = "vert"
    THEN { <<call.x, y>> : y \in call.top_y..(call.top_y + call.height - 1) }
    ELSE { <<x, call.y>> : x \in call.left_x..(call.left_x + call.width - 1) }
\* Those of them that lie inside the viewport, as offsets.
RequestedInside ==
    { PixelOffset(p[1], p[2]) : p \in { q \in Requested : InViewport(q[1], q[2]) } }
AxisCallDone == pc = "line_done" /\ call.kind \in {"vert", "hori"}
\* C11 as stated: after a call of draw_vert_line or draw_hori_line, for every
\* start coordinate and every extent, the pixels written are exactly the
\* pixels of the requested segment inside the viewport, and the value
\* returned is their number (or, when there is none, a sentinel that is not
\* positive).
C11_ClipAndReturnExtent ==
    AxisCallDone =>
        /\ Written = RequestedInside
        /\ \/ call.ret[1] = Cardinality(Written)
           \/ Written = {} /\ call.ret[1] <= 0

\* The pixels within half a pixel, along the minor axis, of the ideal
\* segment between two end points.
NearLine(x1, y1, x2, y2) ==
    LET dx == x2 - x1
        dy == y2 - y1
    IN  { p \in (Min(x1, x2)..Max(x1, x2)) \X (Min(y1, y2)..Max(y1, y2)) :
            IF Abs(dy) < Abs(dx)
            THEN 2 * Abs((p[2] - y1) * dx - (p[1] - x1) * dy) <= Abs(dx)
            ELSE 2 * Abs((p[1] - x1) * dy - (p[2] - y1) * dx) <= Abs(dy) }
\* The coordinates of a call lie entirely outside the viewport: the start
\* of an axis-aligned line is outside and no pixel of its segment is
\* inside; no pixel of the viewport is near the segment of a general line.
EntirelyOutside ==
    CASE call.kind = "vert" ->
             ~InViewport(call.x, call.top_y) /\ RequestedInside = {}
      [] call.kind = "hori" ->
             ~InViewport(call.left_x, call.y) /\ RequestedInside = {}
      [] call.kind = "line" ->
             \A p \in NearLine(call.x1, call.y1, call.x2, call.y2) :
                 ~InViewport(p[1], p[2])
\* C12: a call of draw_line, draw_vert_line or draw_hori_line with
\* coordinates entirely outside the viewport stores no pixel and does not
\* index the frame buffer out of bounds, and the two axis-aligned draws
\* return a value that is not positive.
C12_OutsideLinesDrawNothing ==
    (pc \in {"line_done", "panicked"} /\ EntirelyOutside) =>
        /\ panic = "none"
        /\ Written = {}
        /\ call.kind \in {"vert", "hori"} => call.ret[1] <= 0
\* A general line outside the viewport that passes the early return, so
\* that its pixels reach the test of the loop, has been drawn.
C12_Witness ==
    /\ pc = "line_done" /\ call.kind = "line"
    /\ EntirelyOutside
    /\ ~LineRejected(call.x1, call.y1, call.x2, call.y2)
    /\ Abs(call.x2 - call.x1) > 2 /\ Abs(call.y2 - call.y1) > 2

(***************************************************************************)
(* SpecInput: the program without its frame buffer.  Every iteration of    *)
(* the event loop delivers NewEvents, a burst of keyboard and mouse        *)
(* events, and MainEventsCleared with its update; the redraw of the        *)
(* iteration reads the App and the InputManager and changes neither, and   *)
(* is one step that leaves the frame buffer out.                           *)
(***************************************************************************)
\* The iterations of the loop, and the keyboard and mouse events of one.
MaxInputFrames == 3
MaxBurst == 3
InputKeys == {"S"}

\* What an event of a burst leaves alone.
BurstEvent ==
    /\ pc = "events"
    /\ pending < MaxBurst
    /\ pending' = pending + 1
    /\ UNCHANGED <<pc, camVars, start_time, delta_time, updVars, rayVars,
                   drawVars, trace, frames, control_flow, fullscreen>>
BurstKeyPressed(k) == BurstEvent /\ KeyPressedArm(k)
BurstKeyReleased(k) == BurstEvent /\ KeyReleasedArm(k)
BurstMouseInput(pressed) == BurstEvent /\ MouseInputArm("Left", pressed)
\* RedrawRequested and RedrawEventsCleared of the iteration (main.rs:91-97,
\* input.rs:131), without the frame buffer.
FrameSkipped ==
    /\ pc = "redraw"
    /\ control_flow = "Poll"
    /\ frames < MaxInputFrames
    /\ frames' = frames + 1
    /\ pc' = "new_events"
    /\ UNCHANGED <<camVars, inputVars, updVars, rayVars, drawVars, trace,
                   control_flow, fullscreen, pending>>

NextInput ==
    \/ NewEvents
    \/ \E k \in InputKeys : BurstKeyPressed(k)
    \/ \E k \in InputKeys : BurstKeyReleased(k)
    \/ \E st \in BOOLEAN : BurstMouseInput(st)
    \/ MainEventsCleared
    \/ FrameSkipped
SpecInput == Init /\ [][NextInput]_vars

\* C13 as stated: after any sequence of events, is_down(key) is true exactly
\* when the most recent keyboard event for the key was a press.
C13_IsDownTracksKey ==
    \A k \in InputKeys : is_down(held, k) <=> k \in keys_down

(***************************************************************************)
(* Claims about the sprite pass, checked under SpecDraw.                   *)
(***************************************************************************)
\* C14 as stated: the sprite pass writes no pixel of a sprite into a screen
\* column whose stored ray distance is smaller than the transformed depth
\* of the sprite.
C14_NoSpriteOverNearerWall ==
    \A k \in 1..Len(sprite_log) :
        \A p \in sprite_log[k].pixels :
            RGe(z_buffer[p[1]][1].ray_dist, sprite_log[k].depth)

\* C15 as stated: an entity whose transformed depth is zero or negative is
\* skipped by the sprite pass: the pass computes nothing from a division by
\* that depth and draws no pixel for it.
C15_NonPositiveDepthSkipped ==
    \A k \in 1..Len(sprite_log) :
        RLe(sprite_log[k].depth, RInt(0)) =>
            /\ sprite_log[k].skipped
            /\ ~sprite_log[k].overflow
            /\ sprite_log[k].pixels = {}

(***************************************************************************)
(* Claims about the entity pass of App::update, checked under SpecUpdate.  *)
(***************************************************************************)
\* main.rs:268-272  the removal condition, for an entity already advanced
RemovalCondition(w, e) == OffLimits(e) \/ WallAt(w, e.y_pos, e.x_pos) # 0
\* The entities the pass starts with in this update: those of the App and
\* the projectile the fire trigger has just added.
AtPassStart ==
    IF is_mouse_just_pressed_left(mouse_buttons, old_mouse_buttons)
    THEN Append(entities, Fired(player_x', player_y', dir_x', dir_y'))
    ELSE entities
\* What a pass that advances every entity once and removes those that then
\* meet the removal condition leaves of a list of entities.
PassOver(ents, delta) ==
    SelectSeq([i \in 1..Len(ents) |-> Advance(ents[i], delta)],
              LAMBDA e : ~RemovalCondition(walls, e))
\* C16: in every update that returns, each entity present at the start of
\* the entity pass is advanced exactly once, it is removed if and only if
\* it then meets the removal condition, and the entities left keep their
\* order.
C16_PruneExaminesEachOnce ==
    [][ (pc = "events" /\ pc' = "redraw") =>
            entities' = PassOver(AtPassStart, delta_time'[1]) ]_vars
\* An update has removed a projectile from the middle of the list: of the
\* three projectiles (two in flight, one just fired) the first and the
\* third, examined before the removal, are left in order.
C16_Witness ==
    /\ pc = "redraw"
    /\ Len(entities) = Len(DefaultEntities) + 2
    /\ LET first == entities[Len(entities) - 1]
           third == entities[Len(entities)]
       IN  /\ first.x_vel = RInt(0) /\ first.y_vel = RInt(8)
           /\ first.x_pos = R(3, 2)
           /\ third.kind = "Projectile"
           /\ ~(third.x_vel = R(24, 5) /\ third.y_vel = R(-32, 5))

(***************************************************************************)
(* Claims about the fire trigger, checked under SpecInput.                 *)
(***************************************************************************)
\* C18 as stated: over any sequence of frames, the update of a frame adds
\* one projectile, at the camera position and with 8 times the direction
\* vector as its velocity, if the left mouse button went from up to down in
\* that frame, and adds none otherwise, so none while the button stays
\* held.
C18_FireOncePerClick ==
    [][ (pc = "events" /\ pc' = "redraw") =>
            entities' =
                PassOver(IF left_clicked
                         THEN Append(entities,
                                     Entity(player_x', player_y', 5,
                                            "Projectile",
                                            RMul(RInt(8), dir_x'),
                                            RMul(RInt(8), dir_y')))
                         ELSE entities,
                         delta_time'[1]) ]_vars

(***************************************************************************)
(* Claims about the movement vector, checked under SpecUpdate.             *)
(***************************************************************************)
\* No movement intent is active, or the active intents cancel: the vector
\* of main.rs:217-235 is zero.
NoMovement ==
    /\ MoveRawX(held, dir_x, dir_y) = RInt(0)
    /\ MoveRawY(held, dir_x, dir_y) = RInt(0)
============================================================================
